---- MODULE Spec2Model ----
(***************************************************************************)
(* ws2markdown: a WordStar to Markdown converter (src/src/main.rs).        *)
(*                                                                         *)
(* The run is modelled as a state machine over the local variables of      *)
(* main(): command line handling, reading the input file, lossy decoding   *)
(* and header strip, parsing, the translation loop over the parsed         *)
(* records, and the final output to stdout or to the output file.          *)
(*                                                                         *)
(* Text is a sequence of one-character strings; raw file content is a      *)
(* sequence of byte values 0..255.  A parse tree node (a pest Pair) is a   *)
(* record [rule, str, inner].  The grammar file wordstar.pest is not part  *)
(* of src/, so the parser is modelled by its outcome: a failure or a       *)
(* sequence of records of the shapes the translation loop consumes.        *)
(***************************************************************************)
EXTENDS Integers, Sequences, FiniteSets, TLC

VARIABLES
    pc,                \* position of main(): start, read, decode, parse, translate, output, done, failed, panicked
    args,              \* env::args()
    inputfile,         \* Option<PathBuf>: "None", "Some", or "unset" before assignment
    outputfile,        \* Option<PathBuf>: "Some" carrying the path text
    output_to_stdout,  \* bool
    file_content,      \* Vec<u8> read from the input file
    parser_input,      \* &file_content_string[128..], as UTF-8 bytes
    left_margin,       \* usize
    output_string,     \* String
    record,            \* loop variable of `for record in parser.into_inner()`
    nrecords,          \* number of records the loop has taken from the parse tree
    stdout,            \* what println! has written, one entry per call
    out_file,          \* the output file: whether it was created, and its content
    panic_msg          \* message of the panic that ended the run, or NoPanic

vars == <<pc, args, inputfile, outputfile, output_to_stdout, file_content,
          parser_input, left_margin, output_string, record, nrecords, stdout,
          out_file, panic_msg>>

----------------------------------------------------------------------------
(* Bounds and program constants *)

\* Largest number of records the translation loop takes from one parse tree.
MaxRecords == 2

\* "The first 128 characters are reserved for the file header."
HeaderLen == 128

NoPanic == "none"

----------------------------------------------------------------------------
(* Text helpers *)

NL == <<"\n">>

NBSP == <<"&", "n", "b", "s", "p", ";">>

RECURSIVE Repeat(_, _)
\* str::repeat
Repeat(s, n) == IF n <= 0 THEN <<>> ELSE s \o Repeat(s, n - 1)

Pair(rule, str, inner) == [rule |-> rule, str |-> str, inner |-> inner]

NoPair == Pair("none", <<>>, <<>>)

\* Iterator::next / Pairs::peek on the children of a pair: Some(first) or None.
First(pairs) == IF Len(pairs) = 0 THEN [some |-> FALSE, value |-> NoPair]
                ELSE [some |-> TRUE, value |-> pairs[1]]

----------------------------------------------------------------------------
(* String::from_utf8_lossy and the str slice [128..] *)

\* Number of bytes a UTF-8 character starting with lead byte b has; 0 when b
\* cannot start a character.
Utf8Width(b) ==
    IF b < 128 THEN 1
    ELSE IF b >= 194 /\ b <= 223 THEN 2
    ELSE IF b >= 224 /\ b <= 239 THEN 3
    ELSE IF b >= 240 /\ b <= 244 THEN 4
    ELSE 0

IsContinuation(b) == b >= 128 /\ b <= 191

\* The second byte of a multi-byte character has a range that depends on the lead.
SecondByteOk(lead, b) ==
    CASE lead = 224 -> b >= 160 /\ b <= 191
      [] lead = 237 -> b >= 128 /\ b <= 159
      [] lead = 240 -> b >= 144 /\ b <= 191
      [] lead = 244 -> b >= 128 /\ b <= 143
      [] OTHER -> IsContinuation(b)

\* How many bytes from position i on form a valid prefix of one character.
ValidPrefixLen(s, i) ==
    LET w == Utf8Width(s[i])
        two == w >= 2 /\ i + 1 <= Len(s) /\ SecondByteOk(s[i], s[i + 1])
        three == two /\ w >= 3 /\ i + 2 <= Len(s) /\ IsContinuation(s[i + 2])
        four == three /\ w >= 4 /\ i + 3 <= Len(s) /\ IsContinuation(s[i + 3])
    IN  IF w = 0 THEN 0
        ELSE IF w = 1 THEN 1
        ELSE IF four THEN 4
        ELSE IF three THEN 3
        ELSE IF two THEN 2
        ELSE 1

\* U+FFFD REPLACEMENT CHARACTER in UTF-8.
Replacement == <<239, 191, 189>>

\* Whether a chunk of the decoder starts at position i.  The decoder scans
\* left to right and takes, at each chunk start, the valid prefix of one
\* character (at least one byte).  Only continuation bytes are ever taken as
\* a later byte of a chunk, and only by a lead byte at most three places
\* before, so the chunk starts are decided by the bytes around i.
IsChunkStart(s, i) ==
    \/ ~IsContinuation(s[i])
    \/ ~\E j \in 1..Len(s) :
           /\ j < i
           /\ j >= i - 3
           /\ Utf8Width(s[j]) >= 2
           /\ j + ValidPrefixLen(s, j) > i

\* What the decoder emits for position i: a complete character as it is,
\* U+FFFD for an invalid sequence, nothing inside a chunk.
Decoded(s, i) ==
    IF ~IsChunkStart(s, i) THEN <<>>
    ELSE IF Utf8Width(s[i]) > 0 /\ ValidPrefixLen(s, i) = Utf8Width(s[i])
    THEN SubSeq(s, i, i + Utf8Width(s[i]) - 1)
    ELSE Replacement

RECURSIVE LossyRange(_, _, _)
\* The decoder's output for positions lo..hi, by halving the range.
LossyRange(s, lo, hi) ==
    IF lo > hi THEN <<>>
    ELSE IF lo = hi THEN Decoded(s, lo)
    ELSE LET mid == (lo + hi) \div 2
         IN  LossyRange(s, lo, mid) \o LossyRange(s, mid + 1, hi)

\* String::from_utf8_lossy: valid characters are kept, every maximal invalid
\* sequence becomes one U+FFFD.
FromUtf8Lossy(bytes) == LossyRange(bytes, 1, Len(bytes))

\* str::is_char_boundary
IsCharBoundary(s, n) ==
    \/ n = 0
    \/ n = Len(s)
    \/ n < Len(s) /\ ~IsContinuation(s[n + 1])

\* &s[n..]: panics when n is beyond the end or not on a character boundary.
StrSliceFrom(s, n) ==
    IF n <= Len(s) /\ IsCharBoundary(s, n)
    THEN [panic |-> FALSE, value |-> SubSeq(s, n + 1, Len(s))]
    ELSE [panic |-> TRUE, value |-> <<>>]

\* &file_content_string[128..] of the lossily decoded file content.
HeaderStrip(bytes) == StrSliceFrom(FromUtf8Lossy(bytes), HeaderLen)

----------------------------------------------------------------------------
(* Path::file_name (Unix paths) *)

RECURSIVE SplitOn(_, _, _)
\* The pieces of s between occurrences of sep, the piece being collected in cur.
SplitOn(s, sep, cur) ==
    IF Len(s) = 0 THEN <<cur>>
    ELSE IF Head(s) = sep THEN <<cur>> \o SplitOn(Tail(s), sep, <<>>)
    ELSE SplitOn(Tail(s), sep, Append(cur, Head(s)))

RECURSIVE ComponentsFrom(_, _, _)
\* The components of the pieces from index i on.  Empty pieces (repeated or
\* trailing separators) and "." pieces are dropped, except a leading "." of
\* a relative path, which is CurDir.
ComponentsFrom(pieces, i, hasRoot) ==
    IF i > Len(pieces) THEN <<>>
    ELSE LET piece == pieces[i]
             rest == ComponentsFrom(pieces, i + 1, hasRoot)
         IN  IF piece = <<>> THEN rest
             ELSE IF piece = <<".">>
                  THEN (IF i = 1 /\ ~hasRoot
                        THEN <<[kind |-> "CurDir", text |-> piece]>> \o rest
                        ELSE rest)
             ELSE IF piece = <<".", ".">>
                  THEN <<[kind |-> "ParentDir", text |-> piece]>> \o rest
             ELSE <<[kind |-> "Normal", text |-> piece]>> \o rest

\* Path::components; a leading "/" is RootDir.
PathComponents(p) ==
    LET hasRoot == Len(p) > 0 /\ p[1] = "/"
    IN  (IF hasRoot THEN <<[kind |-> "RootDir", text |-> <<"/">>]>> ELSE <<>>)
        \o ComponentsFrom(SplitOn(p, "/", <<>>), 1, hasRoot)

\* Path::file_name: the last component when it is a normal one, else None.
FileName(p) ==
    LET comps == PathComponents(p)
    IN  IF Len(comps) > 0 /\ comps[Len(comps)].kind = "Normal"
        THEN [some |-> TRUE, value |-> comps[Len(comps)].text]
        ELSE [some |-> FALSE, value |-> <<>>]

----------------------------------------------------------------------------
(* usize::from_str *)

DigitValue(c) ==
    CASE c = "0" -> 0 [] c = "1" -> 1 [] c = "2" -> 2 [] c = "3" -> 3
      [] c = "4" -> 4 [] c = "5" -> 5 [] c = "6" -> 6 [] c = "7" -> 7
      [] c = "8" -> 8 [] c = "9" -> 9 [] OTHER -> -1

RECURSIVE ParseDigits(_, _)
\* Accumulates decimal digits; -1 on a character that is no digit.
ParseDigits(s, acc) ==
    IF Len(s) = 0 THEN acc
    ELSE IF DigitValue(Head(s)) < 0 THEN -1
    ELSE ParseDigits(Tail(s), acc * 10 + DigitValue(Head(s)))

\* usize::from_str: Err on the empty string, on a lone sign, on "-" (usize is
\* unsigned) and on any non-digit; one leading "+" is accepted.
UsizeFromStr(s) ==
    LET digits == IF Len(s) > 0 /\ s[1] = "+" THEN Tail(s) ELSE s
        v == IF Len(digits) = 0 THEN -1 ELSE ParseDigits(digits, 0)
    IN  IF v < 0 THEN [ok |-> FALSE, value |-> 0] ELSE [ok |-> TRUE, value |-> v]

----------------------------------------------------------------------------
(* The parse trees the translation loop is given *)

\* Text spans that occur in the records.
HeaderTexts == {<<"T">>, <<"#", "x">>}

HeaderRules == {"dot_h1", "dot_h2", "dot_h3", "dot_h4", "dot_h5"}

\* header_line: a heading marker pair holding dot_h1 .. dot_h5, then the text.
HeaderLine(rule, text) ==
    Pair("header_line", <<>>,
         <<Pair("header_define", <<>>, <<Pair(rule, <<>>, <<>>)>>),
           Pair("header_text", text, <<>>)>>)

DisplayedText(text) == Pair("displayed_text", text, <<>>)

Modifier(rule) == Pair("allowed_modifiers", <<>>, <<Pair(rule, <<>>, <<>>)>>)

Txt == DisplayedText(<<"a">>)
Bold == Modifier("bold_modifier")
Ital == Modifier("italics_modifier")
Undl == Modifier("underline_modifier")

\* The segment sequences of the normal lines: empty, plain, starting with a
\* modifier, balanced and unbalanced (odd) numbers of markers.
LineSegments ==
    { <<>>, <<Txt>>, <<Bold>>, <<Bold, Txt, Bold>>, <<Ital, Txt>>,
      <<Txt, Undl, Undl>>, <<Ital, Bold, Ital>>, <<Undl, Txt, Ital>> }

NormalLine(segments) == Pair("normal_line", <<>>, segments)

\* dot_command_line holding allowed_dot_commands holding one directive.
AllowedDotCommand(command) ==
    Pair("dot_command_line", <<>>, <<Pair("allowed_dot_commands", <<>>, <<command>>)>>)

InsertFileArgs == { <<"a">>, <<"d", "/", "a">>, <<".", ".">>, <<"/">>, <<>> }

LeftMarginArgs == { <<"2">>, <<"0", "1">>, <<"x">>, <<"-", "1">> }

InsertFile(arg) == AllowedDotCommand(Pair("dot_insert_file", <<>>, <<Pair("file_name", arg, <<>>)>>))
InsertFileNoArg == AllowedDotCommand(Pair("dot_insert_file", <<>>, <<>>))
LeftMargin(arg) == AllowedDotCommand(Pair("dot_left_margin", <<>>, <<Pair("margin_value", arg, <<>>)>>))
LeftMarginNoArg == AllowedDotCommand(Pair("dot_left_margin", <<>>, <<>>))
PageBreak == AllowedDotCommand(Pair("dot_page_break", <<>>, <<>>))

\* Dot-command lines without a recognized directive: a directive the loop does
\* not handle, a first child that is not allowed_dot_commands, an
\* allowed_dot_commands without a child, and a line without any child.
OtherAllowedDotCommand == AllowedDotCommand(Pair("dot_other", <<>>, <<>>))
UnknownDotCommand == Pair("dot_command_line", <<>>, <<Pair("unknown_dot_command", <<"o", "p">>, <<>>)>>)
EmptyAllowedDotCommand == Pair("dot_command_line", <<>>, <<Pair("allowed_dot_commands", <<>>, <<>>)>>)
BareDotCommand == Pair("dot_command_line", <<>>, <<>>)

\* Every record the parse tree of a document may hold.
Records ==
    {HeaderLine(r, t) : r \in HeaderRules, t \in HeaderTexts}
    \cup {NormalLine(segs) : segs \in LineSegments}
    \cup {InsertFile(a) : a \in InsertFileArgs}
    \cup {LeftMargin(a) : a \in LeftMarginArgs}
    \cup {InsertFileNoArg, LeftMarginNoArg, PageBreak, OtherAllowedDotCommand,
          UnknownDotCommand, EmptyAllowedDotCommand, BareDotCommand}

----------------------------------------------------------------------------
(* The body of the translation loop *)

\* What one loop iteration does: the text pushed to output_string, the new
\* left_margin, and whether an unwrap() on None panicked.
Effect(out, margin) == [out |-> out, margin |-> margin, panic |-> FALSE]
Panicked(out, margin) == [out |-> out, margin |-> margin, panic |-> TRUE]

\* Mutant of HeaderPrefix: the fifth level repeats the fourth.
HeaderPrefixFourForFive(rule) ==
    CASE rule = "dot_h1" -> <<"#", " ">>
      [] rule = "dot_h2" -> <<"#", "#", " ">>
      [] rule = "dot_h3" -> <<"#", "#", "#", " ">>
      [] rule = "dot_h4" -> <<"#", "#", "#", "#", " ">>
      [] rule = "dot_h5" -> <<"#", "#", "#", "#", " ">>
      [] OTHER -> <<>>

\* match headline_define.as_rule()
HeaderPrefix(rule) ==
    CASE rule = "dot_h1" -> <<"#", " ">>
      [] rule = "dot_h2" -> <<"#", "#", " ">>
      [] rule = "dot_h3" -> <<"#", "#", "#", " ">>
      [] rule = "dot_h4" -> <<"#", "#", "#", "#", " ">>
      [] rule = "dot_h5" -> <<"#", "#", "#", "#", "#", " ">>
      [] OTHER -> <<>>

\* Rule::header_line
TranslateHeaderLine(rec, margin) ==
    LET define == First(rec.inner)
        level == First(define.value.inner)
    IN  IF ~define.some \/ ~level.some THEN Panicked(<<>>, margin)
        ELSE IF Len(rec.inner) < 2 THEN Panicked(HeaderPrefix(level.value.rule), margin)
        ELSE Effect(HeaderPrefix(level.value.rule) \o rec.inner[2].str \o NL, margin)

\* Mutant of MarginPrefix: one marker too many.
MarginPrefixOffByOne(margin) == Repeat(NBSP, margin + 1)

\* "&nbsp;".repeat(left_margin)
MarginPrefix(margin) == Repeat(NBSP, margin)

\* Mutant of ModifierToken: underline emits a single underscore.
ModifierTokenSingleUnderscore(rule) ==
    CASE rule = "bold_modifier" -> <<"*", "*">>
      [] rule = "italics_modifier" -> <<"*">>
      [] rule = "underline_modifier" -> <<"_">>
      [] OTHER -> <<>>

\* match modifier_pair.as_rule()
ModifierToken(rule) ==
    CASE rule = "bold_modifier" -> <<"*", "*">>
      [] rule = "italics_modifier" -> <<"*">>
      [] rule = "underline_modifier" -> <<"_", "_">>
      [] OTHER -> <<>>

RECURSIVE ModifierTokens(_)
\* for modifier_pair in modifier_pairs
ModifierTokens(pairs) ==
    IF Len(pairs) = 0 THEN <<>>
    ELSE ModifierToken(Head(pairs).rule) \o ModifierTokens(Tail(pairs))

\* match pair.as_rule() of one segment of a normal line
SegmentText(pair) ==
    CASE pair.rule = "displayed_text" -> pair.str
      [] pair.rule = "allowed_modifiers" -> ModifierTokens(pair.inner)
      [] OTHER -> <<>>

RECURSIVE SegmentsText(_)
\* for pair in line_pairs
SegmentsText(pairs) ==
    IF Len(pairs) = 0 THEN <<>>
    ELSE SegmentText(Head(pairs)) \o SegmentsText(Tail(pairs))

\* Rule::normal_line
TranslateNormalLine(rec, margin) ==
    Effect(MarginPrefix(margin) \o SegmentsText(rec.inner) \o NL, margin)

\* Mutant of FileLink: the two arguments of format! are swapped.
FileLinkSwapped(name, value) == NL \o <<"[">> \o value \o <<"]", "(">> \o name \o <<")">> \o NL

\* format!("\n[{0}]({1})\n", name, value)
FileLink(name, value) == NL \o <<"[">> \o name \o <<"]", "(">> \o value \o <<")">> \o NL

\* Rule::dot_insert_file
TranslateInsertFile(command, margin) ==
    LET insert_file_command == First(command.inner)
        name == FileName(insert_file_command.value.str)
    IN  IF ~insert_file_command.some THEN Effect(<<>>, margin)
        ELSE IF ~name.some THEN Panicked(<<>>, margin)
        ELSE Effect(FileLink(name.value, insert_file_command.value.str), margin)

\* Mutant of TranslateLeftMargin: an argument that does not parse leaves the
\* margin as it is.
TranslateLeftMarginKeepOnError(command, margin) ==
    LET left_margin_command == First(command.inner)
        parsed == UsizeFromStr(left_margin_command.value.str)
    IN  IF left_margin_command.some
        THEN Effect(<<>>, IF parsed.ok THEN parsed.value ELSE margin)
        ELSE Effect(<<>>, 0)

\* Rule::dot_left_margin
TranslateLeftMargin(command, margin) ==
    LET left_margin_command == First(command.inner)
        parsed == UsizeFromStr(left_margin_command.value.str)
    IN  IF left_margin_command.some
        THEN Effect(<<>>, IF parsed.ok THEN parsed.value ELSE 0)
        ELSE Effect(<<>>, 0)

\* Rule::dot_page_break
PageBreakText == <<"\n", "-", "-", "-", "-", "\n", "\n">>

\* Mutant of TranslateDotCommandLine: the rule of the first child is not tested.
TranslateDotCommandLineUnchecked(rec, margin) ==
    LET dot_pair == First(rec.inner)
        dot_command == First(dot_pair.value.inner)
    IN  IF ~dot_pair.some THEN Panicked(<<>>, margin)
        ELSE IF ~dot_command.some THEN Panicked(<<>>, margin)
        ELSE CASE dot_command.value.rule = "dot_insert_file" ->
                      TranslateInsertFile(dot_command.value, margin)
               [] dot_command.value.rule = "dot_left_margin" ->
                      TranslateLeftMargin(dot_command.value, margin)
               [] dot_command.value.rule = "dot_page_break" ->
                      Effect(<<"\n", "-", "-", "-", "-", "\n", "\n">>, margin)
               [] OTHER -> Effect(<<>>, margin)

\* Rule::dot_command_line
TranslateDotCommandLine(rec, margin) ==
    LET dot_pair == First(rec.inner)
        dot_command == First(dot_pair.value.inner)
    IN  IF ~dot_pair.some THEN Panicked(<<>>, margin)
        ELSE IF dot_pair.value.rule # "allowed_dot_commands" THEN Effect(<<>>, margin)
        ELSE IF ~dot_command.some THEN Panicked(<<>>, margin)
        ELSE CASE dot_command.value.rule = "dot_insert_file" ->
                      TranslateInsertFile(dot_command.value, margin)
               [] dot_command.value.rule = "dot_left_margin" ->
                      TranslateLeftMargin(dot_command.value, margin)
               [] dot_command.value.rule = "dot_page_break" ->
                      Effect(PageBreakText, margin)
               [] OTHER -> Effect(<<>>, margin)

\* match record.as_rule()
Translate(rec, margin) ==
    CASE rec.rule = "header_line" -> TranslateHeaderLine(rec, margin)
      [] rec.rule = "normal_line" -> TranslateNormalLine(rec, margin)
      [] rec.rule = "dot_command_line" -> TranslateDotCommandLine(rec, margin)
      [] OTHER -> Effect(<<>>, margin)

----------------------------------------------------------------------------
(* The environment: command lines and input files *)

Exe == "ws2markdown"

ArgVectors ==
    { <<Exe>>, <<Exe, "--help">>, <<Exe, "-h">>, <<Exe, "in.ws">>,
      <<Exe, "in.ws", "out.md">> }

\* A 128-byte header of spaces with `byte` at position `pos` (1-based; 0: nowhere).
HeaderWith(pos, byte) == [i \in 1..HeaderLen |-> IF i = pos THEN byte ELSE 32]

\* Input files: a clean header before a body of valid and of invalid text,
\* invalid bytes inside the header, a two-byte character across the end of the
\* header, and a file shorter than the header.
FileContents ==
    { HeaderWith(0, 0) \o <<46, 112, 97, 10>>,
      HeaderWith(0, 0) \o <<255, 10>>,
      HeaderWith(1, 255) \o <<65, 10>>,
      HeaderWith(127, 255) \o <<65, 10>>,
      HeaderWith(128, 195) \o <<169, 10>>,
      SubSeq(HeaderWith(0, 0), 1, 100) }

Println(fmt, arg) == [fmt |-> fmt, arg |-> arg]

UsageText ==
    << Println("ws2markdown: a WordStar to Markdown converter.", <<>>),
       Println("Usage: {0} inputfile.ws [outputfile.md]", Exe),
       Println("If outputfile = empty, the output will be printed to stdout.", <<>>) >>

NoFile == [created |-> FALSE, content |-> <<>>]

----------------------------------------------------------------------------
(* The run of main() *)

Init ==
    /\ pc = "start"
    /\ args \in ArgVectors
    /\ inputfile = "unset"
    /\ outputfile = ""
    /\ output_to_stdout = FALSE
    /\ left_margin = 0
    /\ file_content = <<>>
    /\ parser_input = <<>>
    /\ output_string = <<>>
    /\ record = NoPair
    /\ nrecords = 0
    /\ stdout = <<>>
    /\ out_file = NoFile
    /\ panic_msg = NoPanic

Panic(msg) ==
    /\ pc' = "panicked"
    /\ panic_msg' = msg

\* args[1] of the source is args[2] here: sequences start at 1.
HasArg(n) == Len(args) > n

\* The --help test, then the choice of input and output.  canonicalize()
\* fails when the input file does not exist and main returns the error.
Start ==
    /\ pc = "start"
    /\ \E exists \in BOOLEAN, picked \in BOOLEAN :
        IF ~HasArg(1)
        THEN /\ Panic("index out of bounds: the len is 1 but the index is 1")
             /\ UNCHANGED <<inputfile, outputfile, output_to_stdout, stdout>>
        ELSE IF args[2] = "--help" \/ args[2] = "-h"
        THEN /\ stdout' = stdout \o UsageText
             /\ pc' = "done"
             /\ UNCHANGED <<inputfile, outputfile, output_to_stdout, panic_msg>>
        ELSE IF Len(args) < 3
        THEN IF Len(args) < 2
             THEN /\ inputfile' = (IF picked THEN "dialog.ws" ELSE "None")
                  /\ output_to_stdout' = TRUE
                  /\ pc' = "read"
                  /\ UNCHANGED <<outputfile, stdout, panic_msg>>
             ELSE IF exists
             THEN /\ inputfile' = args[2]
                  /\ output_to_stdout' = TRUE
                  /\ pc' = "read"
                  /\ UNCHANGED <<outputfile, stdout, panic_msg>>
             ELSE /\ pc' = "failed"
                  /\ UNCHANGED <<inputfile, outputfile, output_to_stdout, stdout, panic_msg>>
        ELSE IF exists
        THEN /\ inputfile' = args[2]
             /\ outputfile' = args[3]
             /\ pc' = "read"
             /\ UNCHANGED <<output_to_stdout, stdout, panic_msg>>
        ELSE /\ pc' = "failed"
             /\ UNCHANGED <<inputfile, outputfile, output_to_stdout, stdout, panic_msg>>
    /\ UNCHANGED <<args, file_content, parser_input, left_margin, output_string,
                   record, nrecords, out_file>>

\* File::open(inputfile.unwrap()) and read_to_end.
ReadFile ==
    /\ pc = "read"
    /\ \/ /\ inputfile = "None"
          /\ Panic("called Option::unwrap() on a None value")
          /\ UNCHANGED file_content
       \/ /\ inputfile # "None"
          /\ \/ /\ Panic("Unable to open file")
                /\ UNCHANGED file_content
             \/ /\ Panic("Unable to read")
                /\ UNCHANGED file_content
             \/ /\ file_content' \in FileContents
                /\ pc' = "decode"
                /\ UNCHANGED panic_msg
    /\ UNCHANGED <<args, inputfile, outputfile, output_to_stdout, parser_input,
                   left_margin, output_string, record, nrecords, stdout, out_file>>

\* String::from_utf8_lossy(&file_content) and the slice [128..] of its result.
Decode ==
    /\ pc = "decode"
    /\ LET body == HeaderStrip(file_content)
       IN  IF body.panic
           THEN /\ Panic("byte index 128 is out of bounds or not a char boundary")
                /\ UNCHANGED parser_input
           ELSE /\ parser_input' = body.value
                /\ pc' = "parse"
                /\ UNCHANGED panic_msg
    /\ UNCHANGED <<args, inputfile, outputfile, output_to_stdout, file_content,
                   left_margin, output_string, record, nrecords, stdout, out_file>>

\* Mutant of ParseOutcome: the parse error is noted and the run goes on.
ParseOutcomeIgnoreError(matched) ==
    IF matched THEN [pc |-> "translate", panic_msg |-> NoPanic]
    ELSE [pc |-> "translate", panic_msg |-> "invalid WordStar file!"]

\* WSParser::parse(Rule::file, ..).expect("invalid WordStar file!"): where
\* main() continues after the parser has matched the body, or has not.
ParseOutcome(matched) ==
    IF matched THEN [pc |-> "translate", panic_msg |-> NoPanic]
    ELSE [pc |-> "panicked", panic_msg |-> "invalid WordStar file!"]

\* Whether the body matches the grammar is decided by wordstar.pest.
Parse ==
    /\ pc = "parse"
    /\ \E matched \in BOOLEAN :
        /\ pc' = ParseOutcome(matched).pc
        /\ panic_msg' = ParseOutcome(matched).panic_msg
    /\ UNCHANGED <<args, inputfile, outputfile, output_to_stdout, file_content,
                   parser_input, left_margin, output_string, record, nrecords,
                   stdout, out_file>>

\* One iteration of `for record in parser.into_inner()`: the iterator yields
\* the next record of the parse tree and the match translates it.
TranslateRecord ==
    /\ pc = "translate"
    /\ nrecords < MaxRecords
    /\ \E rec \in Records :
        LET effect == Translate(rec, left_margin)
        IN  /\ record' = rec
            /\ nrecords' = nrecords + 1
            /\ output_string' = output_string \o effect.out
            /\ left_margin' = effect.margin
            /\ IF effect.panic
               THEN Panic("called Option::unwrap() on a None value")
               ELSE UNCHANGED <<pc, panic_msg>>
    /\ UNCHANGED <<args, inputfile, outputfile, output_to_stdout, file_content,
                   parser_input, stdout, out_file>>

\* The iterator is exhausted: the loop ends.
EndOfRecords ==
    /\ pc = "translate"
    /\ pc' = "output"
    /\ UNCHANGED <<args, inputfile, outputfile, output_to_stdout, file_content,
                   parser_input, left_margin, output_string, record, nrecords,
                   stdout, out_file, panic_msg>>

\* println!("{}", output_string), or File::create and write_all.
Output ==
    /\ pc = "output"
    /\ IF output_to_stdout
       THEN /\ stdout' = Append(stdout, Println("{}", output_string))
            /\ pc' = "done"
            /\ UNCHANGED <<out_file, panic_msg>>
       ELSE \/ /\ Panic("could not create the output file")
               /\ UNCHANGED <<out_file, stdout>>
            \/ /\ out_file' = [created |-> TRUE, content |-> <<>>]
               /\ Panic("could not write to the output file")
               /\ UNCHANGED stdout
            \/ /\ out_file' = [created |-> TRUE, content |-> output_string]
               /\ stdout' = Append(stdout, Println("Done.", <<>>))
               /\ pc' = "done"
               /\ UNCHANGED panic_msg
    /\ UNCHANGED <<args, inputfile, outputfile, output_to_stdout, file_content,
                   parser_input, left_margin, output_string, record, nrecords>>

Next ==
    \/ Start
    \/ ReadFile
    \/ Decode
    \/ Parse
    \/ TranslateRecord
    \/ EndOfRecords
    \/ Output

Spec == Init /\ [][Next]_vars

----------------------------------------------------------------------------
(* Properties.  A loop iteration is the only step that changes nrecords; the *)
(* record it translated is record', the text it appended is Appended.        *)

TranslateStep == nrecords' = nrecords + 1

Appended == SubSeq(output_string', Len(output_string) + 1, Len(output_string'))

OutputExtended == SubSeq(output_string', 1, Len(output_string)) = output_string

\* The directive of a dot-command line, when the line has one.
HasDirective(r) ==
    /\ r.rule = "dot_command_line"
    /\ Len(r.inner) >= 1
    /\ r.inner[1].rule = "allowed_dot_commands"
    /\ Len(r.inner[1].inner) >= 1

Directive(r) == r.inner[1].inner[1]

IsDirective(r, rule) == HasDirective(r) /\ Directive(r).rule = rule

\* ---- C1 ----

C1_IsDigits(s) ==
    /\ Len(s) > 0
    /\ \A i \in 1..Len(s) : s[i] \in {"0", "1", "2", "3", "4", "5", "6", "7", "8", "9"}

C1_Digit(c) == CHOOSE d \in 0..9 : ToString(d) = c

RECURSIVE C1_Number(_)
C1_Number(s) ==
    IF Len(s) = 0 THEN 0
    ELSE 10 * C1_Number(SubSeq(s, 1, Len(s) - 1)) + C1_Digit(s[Len(s)])

\* The margin the claim expects after record r, translated at margin m.
C1_Expected(r, m) ==
    IF ~IsDirective(r, "dot_left_margin") THEN m
    ELSE IF Len(Directive(r).inner) = 0 THEN 0
    ELSE IF C1_IsDigits(Directive(r).inner[1].str) THEN C1_Number(Directive(r).inner[1].str)
    ELSE 0

\* C1: left_margin starts at 0 and is changed only by left-margin directives:
\* one without an argument, or with an argument that is no non-negative
\* integer, sets it to 0; one with the integer k sets it to k; every other
\* record and every other step of the run leaves it as it is, so the value
\* holds for the normal lines that follow until the next left-margin directive.
C1_LeftMarginOnlyByDirective ==
    /\ left_margin = 0
    /\ [][ /\ TranslateStep => left_margin' = C1_Expected(record', left_margin)
           /\ ~TranslateStep => left_margin' = left_margin ]_vars

\* A normal line has just been translated at the margin 2 that a directive
\* before it set.
C1_Witness ==
    /\ pc = "translate"
    /\ record.rule = "normal_line"
    /\ left_margin = 2
    /\ SubSeq(output_string, 1, 12) = NBSP \o NBSP

\* ---- C2 ----

RECURSIVE C2_ContentLen(_)
\* Length of what the segments of a normal line stand for: the text of a
\* displayed_text, two characters for bold and underline, one for italics.
C2_ContentLen(segs) ==
    IF Len(segs) = 0 THEN 0
    ELSE C2_ContentLen(Tail(segs))
         + (IF Head(segs).rule = "displayed_text" THEN Len(Head(segs).str)
            ELSE IF Head(segs).inner[1].rule = "italics_modifier" THEN 1
            ELSE 2)

C2_Marker == <<"&", "n", "b", "s", "p", ";">>

\* C2: a normal line translated at left_margin = m appends text that begins
\* with exactly m copies of "&nbsp;", placed before the text of the segments,
\* and ends with one newline, whatever the segments are.
C2_NormalLineMargin ==
    [][ (TranslateStep /\ record'.rule = "normal_line") =>
            LET m == left_margin
                app == Appended
            IN  /\ OutputExtended
                /\ Len(app) = 6 * m + C2_ContentLen(record'.inner) + 1
                /\ \A i \in 1..(6 * m) : app[i] = C2_Marker[((i - 1) % 6) + 1]
                /\ app[Len(app)] = "\n"
                /\ \A i \in 1..(Len(app) - 1) : app[i] # "\n" ]_vars

\* A line that starts with a modifier was translated at margin 2.
C2_Witness ==
    /\ pc = "translate"
    /\ record = NormalLine(<<Bold, Txt, Bold>>)
    /\ left_margin = 2
    /\ output_string = C2_Marker \o C2_Marker \o <<"*", "*", "a", "*", "*", "\n">>

\* ---- C3 ----

C3_Level(r) ==
    LET rule == r.inner[1].inner[1].rule
    IN  CASE rule = "dot_h1" -> 1 [] rule = "dot_h2" -> 2 [] rule = "dot_h3" -> 3
          [] rule = "dot_h4" -> 4 [] rule = "dot_h5" -> 5 [] OTHER -> 0

\* C3: a header line of level N in 1..5 appends exactly N '#', one space, the
\* header's text and one newline; no margin marker comes before it and the
\* number of '#' is never zero or more than five.
C3_HeaderLine ==
    [][ (TranslateStep /\ record'.rule = "header_line") =>
            LET n == C3_Level(record')
            IN  /\ n \in 1..5
                /\ OutputExtended
                /\ Appended = [i \in 1..n |-> "#"] \o <<" ">> \o record'.inner[2].str \o <<"\n">>
                /\ left_margin' = left_margin
                /\ pc' = "translate" ]_vars

\* A level-5 header was translated while the margin was 2.
C3_Witness ==
    /\ pc = "translate"
    /\ record = HeaderLine("dot_h5", <<"T">>)
    /\ left_margin = 2
    /\ output_string = <<"#", "#", "#", "#", "#", " ", "T", "\n">>

\* ---- C4 ----

C4_NoUsableArgument(r) ==
    /\ IsDirective(r, "dot_insert_file")
    /\ \/ Len(Directive(r).inner) = 0
       \/ Directive(r).inner[1].str \in {<<>>, <<"/">>, <<".", ".">>}

\* C4: an insert-file directive whose argument is missing, empty or without a
\* final path component ("..", "/") emits nothing, leaves left_margin as it
\* is and does not abort the run: the loop goes on with the next record.
C4_InsertFileWithoutName ==
    [][ (TranslateStep /\ C4_NoUsableArgument(record')) =>
            /\ output_string' = output_string
            /\ left_margin' = left_margin
            /\ pc' = "translate" ]_vars

\* ---- C5 ----

\* C5: for every input buffer (here: every one that holds a whole header)
\* the text handed to the parser is the lossy decoding of the bytes from
\* offset 128 on: the first 128 raw bytes are dropped whatever they are, and
\* invalid bytes are replaced and never end the run.
C5_StripThenDecode ==
    (Len(file_content) >= HeaderLen /\ pc # "decode") =>
        /\ panic_msg # "byte index 128 is out of bounds or not a char boundary"
        /\ parser_input = FromUtf8Lossy(SubSeq(file_content, HeaderLen + 1, Len(file_content)))

\* ---- C6 ----

\* C6: when the body does not match the grammar the run ends there: no record
\* was translated, nothing was printed to stdout and the output file was not
\* created.
C6_NoOutputOnParseFailure ==
    panic_msg = "invalid WordStar file!" =>
        /\ pc = "panicked"
        /\ nrecords = 0
        /\ output_string = <<>>
        /\ stdout = <<>>
        /\ out_file = NoFile

\* The parser rejected the body of a run that was to write an output file.
C6_Witness ==
    /\ panic_msg = "invalid WordStar file!"
    /\ ~output_to_stdout
    /\ parser_input # <<>>

\* ---- C7 ----

RECURSIVE C7_Basename(_)
\* What follows the last "/" of p.
C7_Basename(p) ==
    IF Len(p) = 0 \/ p[Len(p)] = "/" THEN <<>>
    ELSE Append(C7_Basename(SubSeq(p, 1, Len(p) - 1)), p[Len(p)])

C7_ValidInsert(r) ==
    /\ IsDirective(r, "dot_insert_file")
    /\ Len(Directive(r).inner) >= 1
    /\ C7_Basename(Directive(r).inner[1].str) \notin {<<>>, <<".">>, <<".", ".">>}

C7_Path(r) == Directive(r).inner[1].str

C7_Link(p) == <<"[">> \o C7_Basename(p) \o <<"]", "(">> \o p \o <<")">>

\* C7 as claimed: the link of an insert-file directive with a valid path is
\* preceded and followed by an empty line whatever record comes before or
\* after it: the output before it is empty or ends a line, the text appended
\* is a newline, the link and a newline, and the text the next record appends
\* begins with a newline.
C7_LinkBetweenBlankLines ==
    [][ /\ (TranslateStep /\ C7_ValidInsert(record')) =>
               /\ OutputExtended
               /\ output_string = <<>> \/ output_string[Len(output_string)] = "\n"
               /\ Appended = <<"\n">> \o C7_Link(C7_Path(record')) \o <<"\n">>
               /\ left_margin' = left_margin
        /\ (TranslateStep /\ C7_ValidInsert(record) /\ Appended # <<>>) =>
               Appended[1] = "\n" ]_vars

\* C7 amended: the text appended is one newline, the link [basename(p)](p)
\* and one newline; the output before it is empty or ends with a newline, so
\* an empty line precedes the link; left_margin is unchanged and the loop
\* goes on.  No empty line is appended after the link.
C7_LinkAfterBlankLine ==
    [][ (TranslateStep /\ C7_ValidInsert(record')) =>
            /\ OutputExtended
            /\ output_string = <<>> \/ output_string[Len(output_string)] = "\n"
            /\ Appended = <<"\n">> \o C7_Link(C7_Path(record')) \o <<"\n">>
            /\ left_margin' = left_margin
            /\ pc' = "translate" ]_vars

\* The link of d/a was appended after a normal line.
C7_Witness ==
    /\ pc = "translate"
    /\ record = InsertFile(<<"d", "/", "a">>)
    /\ output_string = <<"a", "\n", "\n", "[", "a", "]", "(", "d", "/", "a", ")", "\n">>

\* ---- C8 ----

C8_NoRecognizedDirective(r) ==
    /\ r.rule = "dot_command_line"
    /\ ~IsDirective(r, "dot_insert_file")
    /\ ~IsDirective(r, "dot_left_margin")
    /\ ~IsDirective(r, "dot_page_break")

\* The line has no child, or its allowed_dot_commands child has none.
C8_ChildMissing(r) ==
    \/ Len(r.inner) = 0
    \/ r.inner[1].rule = "allowed_dot_commands" /\ Len(r.inner[1].inner) = 0

C9_Token(seg) ==
    IF seg.rule = "displayed_text" THEN seg.str
    ELSE LET rule == seg.inner[1].rule
         IN  CASE rule = "bold_modifier" -> <<"*", "*">>
               [] rule = "italics_modifier" -> <<"*">>
               [] rule = "underline_modifier" -> <<"_", "_">>

RECURSIVE C9_Emitted(_)
\* The tokens of the segments in document order, built from the last one.
C9_Emitted(segs) ==
    IF Len(segs) = 0 THEN <<>>
    ELSE C9_Emitted(SubSeq(segs, 1, Len(segs) - 1)) \o C9_Token(segs[Len(segs)])

C9_Markers(segs, rule) ==
    Cardinality({i \in 1..Len(segs) :
                    segs[i].rule = "allowed_modifiers" /\ segs[i].inner[1].rule = rule})

C9_Count(text, c) == Cardinality({i \in 1..Len(text) : text[i] = c})

\* C9: between the margin and the newline a normal line is its segments in
\* document order, text as it is and "**", "*", "__" for every bold, italic
\* and underline marker, with no pairing: the numbers of tokens equal the
\* numbers of markers, odd ones too.  (The displayed text of the model holds
\* no '*' and no '_'.)
C9_SegmentsInOrder ==
    [][ (TranslateStep /\ record'.rule = "normal_line") =>
            LET segs == record'.inner
                line == SubSeq(Appended, 6 * left_margin + 1, Len(Appended) - 1)
            IN  /\ line = C9_Emitted(segs)
                /\ C9_Count(line, "*") = 2 * C9_Markers(segs, "bold_modifier")
                                         + C9_Markers(segs, "italics_modifier")
                /\ C9_Count(line, "_") = 2 * C9_Markers(segs, "underline_modifier") ]_vars

\* A line with one underline and one italics marker was translated.
C9_Witness ==
    /\ pc = "translate"
    /\ record = NormalLine(<<Undl, Txt, Ital>>)
    /\ output_string = <<"_", "_", "a", "*", "\n">>

\* ---- C10 ----

\* C10: started without any argument the program does not fail: it asks for
\* the input file and sends the output to stdout.
C10_NoArgumentRuns ==
    (Len(args) = 1 /\ pc # "start") =>
        /\ pc # "panicked"
        /\ output_to_stdout

====
